---- MODULE Spec2Model ----
(***************************************************************************)
(* Model of src/cli/qmicli-nas.c: the NAS slice of qmicli.  One process    *)
(* run: the action flags are fixed by option parsing, the driver asks      *)
(* qmicli_nas_options_enabled, calls qmicli_nas_run once, and the GLib     *)
(* main loop later dispatches the completion callback, which renders the   *)
(* response and ends in shutdown().                                        *)
(*                                                                         *)
(* Everything the program does that is visible from outside (accessor      *)
(* calls on the response, lines printed, submissions, the finished signal) *)
(* is appended to the history variable trace as a triple                   *)
(* <<act, arg, note>> of strings.                                          *)
(***************************************************************************)
EXTENDS Integers, Sequences, FiniteSets, TLC

\* ------------------------------------------------------------------ bounds

\* Presence sets of a response differ from "nothing present" or from
\* "everything present" in at most MaxVary field groups.
MaxVary == 2

\* Reference count each handle may have when qmicli_nas_run is entered.
MaxInitRef == 2

\* Calls of qmicli_nas_options_enabled followed in OptionsSpec.
MaxCalls == 3

\* Largest raw ECIO value the modem of ValueSpec reports.
MaxEcio == 20

\* Largest QmiNasEvdoSinrLevel the modem of ValueSpec reports.
MaxSinrLevel == 10

\* --------------------------------------------------------- program constants

\* Timeout passed to every query but the network scan.
ShortTimeout == 10

\* Timeout passed to the network scan.
ScanTimeout == 300

\* The eight action flags, in the order qmicli_nas_run tests them.
RunOrder ==
    << "get_signal_strength", "get_signal_info", "get_serving_system",
       "get_technology_preference", "get_system_selection_preference",
       "network_scan", "reset", "noop" >>

Actions == { RunOrder[i] : i \in 1..Len(RunOrder) }

\* The request mask built by get_signal_strength_input_create.
RequestMask == { "RSSI", "ECIO", "IO", "SINR", "RSRQ", "LTE_SNR", "LTE_RSRP" }

\* ------------------------------------------------------------ field groups
\* One entry per accessor call of a handler, in source order: the accessor,
\* the section it prints, and whether the handler tests the accessor's
\* return value before printing.

G(get, sec, checked) == [get |-> get, sec |-> sec, checked |-> checked]

\* The groups of get_signal_info_ready with GSM and WCDMA exchanged.
SignalInfoGroups_GsmAfterWcdma ==
    << G("cdma_signal_strength", "CDMA", TRUE),
       G("hdr_signal_strength", "HDR", TRUE),
       G("wcdma_signal_strength", "WCDMA", TRUE),
       G("gsm_signal_strength", "GSM", TRUE),
       G("lte_signal_strength", "LTE", TRUE),
       G("tdma_signal_strength", "TDMA", TRUE) >>

SignalInfoGroups ==
    << G("cdma_signal_strength", "CDMA", TRUE),
       G("hdr_signal_strength", "HDR", TRUE),
       G("gsm_signal_strength", "GSM", TRUE),
       G("wcdma_signal_strength", "WCDMA", TRUE),
       G("lte_signal_strength", "LTE", TRUE),
       G("tdma_signal_strength", "TDMA", TRUE) >>

SignalStrengthPrimary == G("signal_strength", "Current", FALSE)

SignalStrengthGroups ==
    << G("strength_list", "Other", TRUE),
       G("rssi_list", "RSSI", TRUE),
       G("ecio_list", "ECIO", TRUE),
       G("io", "IO", TRUE),
       G("sinr", "SINR", TRUE),
       G("rsrq", "RSRQ", TRUE),
       G("lte_snr", "SNR", TRUE),
       G("lte_rsrp", "RSRP", TRUE) >>

ServingSystemPrimary == G("serving_system", "Registration state", FALSE)

ServingSystemGroups ==
    << G("roaming_indicator", "Roaming status", TRUE),
       G("data_service_capability", "Data service capabilities", TRUE),
       G("current_plmn", "Current PLMN", TRUE),
       G("cdma_system_id", "CDMA System ID", TRUE),
       G("cdma_base_station_info", "CDMA Base station info", TRUE),
       G("roaming_indicator_list", "Roaming indicators", TRUE),
       G("default_roaming_indicator", "Default roaming status", TRUE),
       G("time_zone_3gpp2", "3GPP2 time zone", TRUE),
       G("cdma_p_rev", "CDMA P_Rev", TRUE),
       G("time_zone_3gpp", "3GPP time zone offset", TRUE),
       G("daylight_saving_time_adjustment_3gpp",
         "3GPP daylight saving time adjustment", TRUE),
       G("lac_3gpp", "3GPP location area code", TRUE),
       G("cid_3gpp", "3GPP cell ID", TRUE),
       G("concurrent_service_info_3gpp2", "3GPP2 concurrent service info", TRUE),
       G("prl_indicator_3gpp2", "3GPP2 PRL indicator", TRUE),
       G("dual_transfer_mode_supported", "Dual transfer mode", TRUE),
       G("detailed_service_status", "Detailed status", TRUE),
       G("cdma_system_info", "CDMA system info", TRUE),
       G("hdr_personality", "HDR personality", TRUE),
       G("lte_tac", "LTE tracking area code", TRUE),
       G("call_barring_status", "Call barring status", TRUE),
       G("umts_primary_scrambling_code", "UMTS primary scrambling code", TRUE),
       G("mnc_pcs_digit_include_status", "Full operator code info", TRUE) >>

TechnologyPreferencePrimary == G("active", "Active", FALSE)

TechnologyPreferenceGroups == << G("persistent", "Persistent", TRUE) >>

SystemSelectionPreferenceGroups ==
    << G("emergency_mode", "Emergency mode", TRUE),
       G("mode_preference", "Mode preference", TRUE),
       G("band_preference", "Band preference", TRUE),
       G("lte_band_preference", "LTE band preference", TRUE),
       G("td_scdma_band_preference", "TD-SCDMA band preference", TRUE),
       G("cdma_prl_preference", "CDMA PRL preference", TRUE),
       G("roaming_preference", "Roaming preference", TRUE),
       G("network_selection_preference", "Network selection preference", TRUE),
       G("service_domain_preference", "Service domain preference", TRUE),
       G("gsm_wcdma_acquisition_order_preference",
         "Service selection preference", TRUE),
       G("manual_network_selection", "Manual network selection", TRUE) >>

NetworkScanGroups ==
    << G("network_information", "Network information", TRUE),
       G("radio_access_technology", "Network RAT", TRUE),
       G("mnc_pcs_digit_include_status", "Network PCS digit", TRUE) >>

\* Every accessor a handler of the given action calls, in call order.
GroupsOf(action) ==
    CASE action = "get_signal_strength" ->
            <<SignalStrengthPrimary>> \o SignalStrengthGroups
      [] action = "get_signal_info" -> SignalInfoGroups
      [] action = "get_serving_system" ->
            <<ServingSystemPrimary>> \o ServingSystemGroups
      [] action = "get_technology_preference" ->
            <<TechnologyPreferencePrimary>> \o TechnologyPreferenceGroups
      [] action = "get_system_selection_preference" ->
            SystemSelectionPreferenceGroups
      [] action = "network_scan" -> NetworkScanGroups
      [] OTHER -> << >>

GroupNames(action) ==
    { GroupsOf(action)[i].get : i \in 1..Len(GroupsOf(action)) }

\* ---------------------------------------------------------------- state

\* ------------------------------------------------------ response contents

\* The named bits of the network-status mask, in their canonical order.
NetworkStatusBits ==
    << "current-serving", "available", "home", "roaming", "forbidden",
       "not-forbidden", "preferred", "not-preferred" >>

\* The raw values of the fields the responses carry (each is delivered only
\* when its field group is present): the modem of the worked examples.
ScenarioModem ==
    [ strength          |-> -85,           \* gint8, dBm
      radio_interface   |-> "lte",
      ecio              |-> 10,            \* raw, in units of -0.5 dB
      sinr_level        |-> 9,             \* QmiNasEvdoSinrLevel
      local_time_offset |-> 2,             \* gint8, units of 30 minutes
      time_zone         |-> -4,            \* gint8, units of 15 minutes
      networks          |-> << {"forbidden"}, {} >>,  \* network_status masks
      persistent        |-> {"3gpp2"} ]    \* persistent technology preference

VARIABLES
    flags,        \* the eight static gboolean action flags
    modem,        \* the raw values the modem answers with: see ScenarioModem
    checked,      \* static 'checked' of qmicli_nas_options_enabled
    n_actions,    \* static 'n_actions' of qmicli_nas_options_enabled
    enabled_first,\* history: what the first call of options_enabled returned
    enabled_last, \* history: what its latest call returned
    n_counts,     \* history: how many calls summed the flags
    n_calls,      \* history: calls of options_enabled followed by OptionsSpec
    pc,           \* where the process is: see ProcessStates
    ctx,          \* the Context the global 'ctx' points to
    refs,         \* reference counts of the device, client and token objects
    refs0,        \* the reference count each handle had before qmicli_nas_run
    cancelled,    \* the caller's cancellation token has been triggered
    pending,      \* requests submitted to the client and not yet completed
    idle,         \* idle sources attached to the main loop
    doneSignals,  \* arguments of the calls to qmicli_async_operation_done
    completion,   \* the completion the transport delivered, or NoCompletion
    trace         \* history: every externally visible step, in order

vars ==
    << flags, modem, checked, n_actions, enabled_first, enabled_last,
       n_counts, n_calls, pc, ctx, refs, refs0, cancelled, pending, idle, doneSignals,
       completion, trace >>

\* The history of qmicli_nas_options_enabled.
returns == << enabled_first, enabled_last, n_counts, n_calls >>

ProcessStates ==
    { "start",      \* options parsed, nothing called yet
      "skipped",    \* options_enabled returned FALSE: the driver skips NAS
      "selected",   \* options_enabled returned TRUE: the driver will call run
      "running",    \* qmicli_nas_run has returned, the main loop is running
      "finished",   \* qmicli_async_operation_done has been called
      "exited",     \* exit (EXIT_FAILURE)
      "crashed" }   \* the process died on an invalid pointer

Alive == pc \notin { "exited", "crashed" }

Ev(act, arg, note) == << act, arg, note >>

Count(act) == Cardinality({ i \in DOMAIN trace : trace[i][1] = act })

CountArg(act, arg) ==
    Cardinality({ i \in DOMAIN trace : trace[i][1] = act /\ trace[i][2] = arg })

\* Index of the first step with this act and arg, 0 when there is none.
FirstIndex(act, arg) ==
    LET I == { i \in DOMAIN trace : trace[i][1] = act /\ trace[i][2] = arg }
    IN  IF I = {} THEN 0 ELSE CHOOSE i \in I : \A j \in I : i <= j

\* Context before qmicli_nas_run: the global pointer holds no context.
NoContext ==
    [state |-> "none", device |-> "null", client |-> "null",
     cancellable |-> "null"]

NoCompletion ==
    [kind |-> "none", ok |-> FALSE, detail |-> "", present |-> {},
     fault |-> "none"]

\* Values a pointer-sized slot of g_slice_new memory can hold before it is
\* assigned: NULL, or a stale non-NULL value that is no live object.
UninitPointer == { "null", "wild" }

\* What using a wild pointer as a GObject does: GLib rejects it with a
\* critical message and carries on, or the process dies.
WildOutcomes == { "ignored", "crash" }

\* The process after option parsing, before any function of the file ran.
ProcessStart ==
    /\ checked = FALSE
    /\ n_actions = 0
    /\ enabled_first = << >>
    /\ enabled_last = << >>
    /\ n_counts = 0
    /\ n_calls = 0
    /\ pc = "start"
    /\ ctx = NoContext
    /\ refs0 \in 1..MaxInitRef
    /\ refs = [device |-> refs0, client |-> refs0, token |-> refs0]
    /\ cancelled = FALSE
    /\ pending = << >>
    /\ idle = << >>
    /\ doneSignals = << >>
    /\ completion = NoCompletion
    /\ trace = << >>

Init ==
    /\ flags \in [Actions -> BOOLEAN]
    /\ modem = ScenarioModem
    /\ ProcessStart

\* --------------------------------------------------- qmicli_nas_options_enabled

\* gboolean flags add as 0/1.
FlagCount(f) == Cardinality({ a \in Actions : f[a] })

\* The test with its threshold off by one: two actions are let through.
TooManyActions_OffByOne(n) == n > 2

\* The test that rejects the command line.
TooManyActions(n) == n > 1

\* The process driver: its first call of qmicli_nas_options_enabled decides
\* whether it will call qmicli_nas_run or skip the NAS actions.
DriverAfterCheck(at, enabled) ==
    IF at = "start" THEN (IF enabled THEN "selected" ELSE "skipped") ELSE at

\* The process driver calls qmicli_nas_run once, after the check said yes
\* and the device and client are open.
DriverCallsRun == pc = "selected"

\* The caller of qmicli_nas_options_enabled receives 'value'.
ReturnsValue(value) ==
    /\ enabled_first' = IF enabled_first = << >> THEN << value >>
                        ELSE enabled_first
    /\ enabled_last' = << value >>

\* The cached answer with its sense inverted.
CachedAnswer_Negated(n) == n = 0

\* What a call returns once 'checked' is set: !!n_actions.
CachedAnswer(n) == n # 0

\* The body of qmicli_nas_options_enabled.
OptionsEnabledCall ==
    /\ Alive
    /\ IF checked
       THEN /\ pc' = DriverAfterCheck(pc, CachedAnswer(n_actions))
            /\ ReturnsValue(CachedAnswer(n_actions))
            /\ UNCHANGED << checked, n_actions, n_counts, trace >>
       ELSE LET n == FlagCount(flags) IN
            /\ n_counts' = n_counts + 1
            /\ IF TooManyActions(n)
               THEN /\ n_actions' = n
                    /\ trace' = trace \o
                          << Ev("printerr", "too many NAS actions requested", ""),
                             Ev("exit", "EXIT_FAILURE", "") >>
                    /\ pc' = "exited"
                    /\ UNCHANGED << checked, enabled_first, enabled_last >>
               ELSE /\ n_actions' = n
                    /\ checked' = TRUE
                    /\ pc' = DriverAfterCheck(pc, n # 0)
                    /\ ReturnsValue(n # 0)
                    /\ UNCHANGED trace
    /\ UNCHANGED << flags, modem, ctx, refs, refs0, cancelled, pending, idle,
                    doneSignals, completion >>

\* One call of qmicli_nas_options_enabled.
qmicli_nas_options_enabled ==
    /\ OptionsEnabledCall
    /\ UNCHANGED n_calls

\* One call of qmicli_nas_options_enabled, counted.
CountedCall ==
    /\ n_calls < MaxCalls
    /\ OptionsEnabledCall
    /\ n_calls' = n_calls + 1

\* ------------------------------------------------- get_signal_strength_input_create

\* A NULL input pointer.
NullInput == [is_null |-> TRUE, request_mask |-> {}]

\* The input bundle, or NULL when setting the request mask fails.
get_signal_strength_input_create(set_mask_ok) ==
    IF set_mask_ok
    THEN [input |-> [is_null |-> FALSE, request_mask |-> RequestMask],
          steps |-> << >>]
    ELSE [input |-> NullInput,
          steps |-> << Ev("printerr", "couldn't create input data bundle", "") >>]

\* ------------------------------------------------------------ qmicli_nas_run

\* The action the if-chain of qmicli_nas_run picks: the first flag set in
\* source order, "none" when no flag is set.
Selected(f) ==
    LET I == { i \in 1..Len(RunOrder) : f[RunOrder[i]] }
    IN  IF I = {} THEN "none"
        ELSE RunOrder[CHOOSE i \in I : \A j \in I : i <= j]

\* Every request given the short timeout.
TimeoutOf_AlwaysShort(action) == ShortTimeout

TimeoutOf(action) == IF action = "network_scan" THEN ScanTimeout ELSE ShortTimeout

\* "Initialize context": the three assignments of lines 1225-1229.  The
\* cancellable slot is assigned only when a token is passed; otherwise it
\* keeps whatever the fresh slice held.
NewContext(cancellable, slot) ==
    [state |-> "live", device |-> "device", client |-> "client",
     cancellable |-> IF cancellable # "null" THEN cancellable ELSE slot]

Ref(r, cancellable) ==
    [r EXCEPT !.device = @ + 1, !.client = @ + 1,
              !.token = IF cancellable # "null" THEN @ + 1 ELSE @]

\* The request one qmi_client_nas_* call hands to the client.
Request(action, input, c) ==
    [action |-> action, input |-> input, timeout |-> TimeoutOf(action),
     cancellable |-> c.cancellable, callback |-> action]

\* qmicli_nas_run with the reset block repeated under the no-op flag: the
\* no-op submits a request as well as adding its idle source.
RunBody_NoopSubmits(action, c, set_mask_ok) ==
    IF action = "get_signal_strength"
    THEN LET made == get_signal_strength_input_create(set_mask_ok) IN
         [steps |-> made.steps \o << Ev("submit", action, "") >>,
          submit |-> << Request(action, made.input, c) >>,
          idle |-> << >>]
    ELSE IF action = "noop"
    THEN [steps |-> << Ev("submit", "reset", ""),
                       Ev("idle_add", "noop_cb", "") >>,
          submit |-> << Request("reset", NullInput, c) >>,
          idle |-> << "noop_cb" >>]
    ELSE IF action = "none"
    THEN [steps |-> << Ev("warn_if_reached", "", "") >>,
          submit |-> << >>,
          idle |-> << >>]
    ELSE [steps |-> << Ev("submit", action, "") >>,
          submit |-> << Request(action, NullInput, c) >>,
          idle |-> << >>]

\* What qmicli_nas_run does after the context is initialised: the steps it
\* takes, the requests it submits and the idle sources it adds.
RunBody(action, c, set_mask_ok) ==
    IF action = "get_signal_strength"
    THEN LET made == get_signal_strength_input_create(set_mask_ok) IN
         [steps |-> made.steps \o << Ev("submit", action, "") >>,
          submit |-> << Request(action, made.input, c) >>,
          idle |-> << >>]
    ELSE IF action = "noop"
    THEN [steps |-> << Ev("idle_add", "noop_cb", "") >>,
          submit |-> << >>,
          idle |-> << "noop_cb" >>]
    ELSE IF action = "none"
    THEN [steps |-> << Ev("warn_if_reached", "", "") >>,
          submit |-> << >>,
          idle |-> << >>]
    ELSE [steps |-> << Ev("submit", action, "") >>,
          submit |-> << Request(action, NullInput, c) >>,
          idle |-> << >>]

\* The body of qmicli_nas_run (device, client, cancellable).
RunCall ==
    /\ \E cancellable \in { "null", "token" }, slot \in UninitPointer,
          set_mask_ok \in BOOLEAN, wild \in WildOutcomes :
          LET c    == NewContext(cancellable, slot)
              body == RunBody(Selected(flags), c, set_mask_ok)
              \* the client takes a reference on the cancellable it is given
              dies == /\ body.submit # << >>
                      /\ c.cancellable = "wild"
                      /\ wild = "crash"
          IN  /\ ctx' = c
              /\ refs' = Ref(refs, cancellable)
              /\ IF dies
                 THEN /\ pc' = "crashed"
                      /\ trace' = trace \o << Ev("run", "enter", "") >>
                                        \o body.steps
                                        \o << Ev("crash", "cancellable", "") >>
                      /\ UNCHANGED << pending, idle >>
                 ELSE /\ pc' = "running"
                      /\ trace' = trace \o << Ev("run", "enter", "") >>
                                        \o body.steps
                                        \o << Ev("run", "return", "") >>
                      /\ pending' = pending \o body.submit
                      /\ idle' = idle \o body.idle
    /\ UNCHANGED << flags, modem, checked, n_actions, returns, refs0,
                    cancelled, doneSignals, completion >>

\* One call of qmicli_nas_run (device, client, cancellable) by the driver.
qmicli_nas_run ==
    /\ DriverCallsRun
    /\ RunCall

\* One call of qmicli_nas_run by a caller that did not ask
\* qmicli_nas_options_enabled first.
CalledDirectly ==
    /\ pc = "start"
    /\ RunCall

\* ------------------------------------------------------- the response

RECURSIVE UpTo(_, _)
\* The subsets of S with at most k elements.
UpTo(S, k) ==
    IF k = 0 THEN { {} }
    ELSE LET P == UpTo(S, k - 1) IN P \cup { T \cup {x} : T \in P, x \in S }

\* The sets of field groups a response to the action may carry.
PresenceSets(action) ==
    LET N == GroupNames(action)
        P == UpTo(N, MaxVary)
    IN  P \cup { N \ T : T \in P }

\* The outcomes of reading through the unassigned radio_interfaces pointer.
Faults(action, present) ==
    IF action = "get_serving_system" /\ "serving_system" \notin present
    THEN WildOutcomes ELSE { "none" }

\* The completions the client can deliver for a request of the action: a
\* transport error (a cancellation only once the token was triggered), or an
\* output whose result is a failure or a success, with any presence set.
\* 'fault' is what dereferencing the unassigned radio_interfaces pointer of
\* get_serving_system_ready does when the serving-system group is absent.
Completions(action, was_cancelled) ==
    { [kind |-> "error", ok |-> FALSE, detail |-> d, present |-> {},
       fault |-> "none"] :
         d \in { "timeout" } \cup (IF was_cancelled THEN { "cancelled" } ELSE {}) }
    \cup
    { [kind |-> "output", ok |-> FALSE, detail |-> "no service", present |-> p,
       fault |-> "none"] : p \in PresenceSets(action) }
    \cup
    UNION { { [kind |-> "output", ok |-> TRUE, detail |-> "", present |-> p,
               fault |-> f] : f \in Faults(action, p) } :
            p \in PresenceSets(action) }

\* --------------------------------------------------------------- handlers
\* A handler is modelled by the steps it takes up to its call of shutdown,
\* the status it passes to shutdown, and whether the process died before.

Outcome(steps, status, crashed) ==
    [steps |-> steps, status |-> status, crashed |-> crashed,
     torn |-> ~crashed]

\* A handler path that returns without calling shutdown.  No path of the
\* source does; Complete handles it so that such a path would show.
Return(steps) ==
    [steps |-> steps, status |-> FALSE, crashed |-> FALSE, torn |-> FALSE]

\* The transport-failure path treating a cancellation as a quiet stop: no
\* message is printed for it.
OperationFailed_SilentCancel(res) ==
    IF res.detail = "cancelled"
    THEN Outcome(<< Ev("finish", "", "") >>, FALSE, FALSE)
    ELSE Outcome(<< Ev("finish", "", ""),
                    Ev("printerr", "operation failed", res.detail) >>,
                 FALSE, FALSE)

\* "if (!output)": the transport failed; the message is printed and the
\* handler goes to shutdown (FALSE).
OperationFailed(res) ==
    Outcome(<< Ev("finish", "", ""),
               Ev("printerr", "operation failed", res.detail) >>,
            FALSE, FALSE)

\* The result-failure path returning without the call of shutdown.
ResultFailed_NoShutdown(message, res) ==
    Return(<< Ev("finish", "", ""),
              Ev("get_result", "", ""),
              Ev("printerr", message, res.detail) >>)

\* "if (!..._output_get_result (output, &error))".
ResultFailed(message, res) ==
    Outcome(<< Ev("finish", "", ""),
               Ev("get_result", "", ""),
               Ev("printerr", message, res.detail) >>,
            FALSE, FALSE)

\* The "[%s] Successfully ..." line, which reads ctx->device.
Header == << Ev("ctx_read", "device", ""), Ev("print", "header", "") >>

\* An accessor call whose section is printed whatever it returned.
Optional_AlwaysPrints(g, present) ==
    << Ev("get", g.get, ""), Ev("print", g.sec, "envelope") >>

\* An accessor call whose return value decides whether the section is printed.
Optional(g, present) ==
    << Ev("get", g.get, "") >>
    \o (IF g.get \in present THEN << Ev("print", g.sec, "envelope") >> ELSE << >>)

RECURSIVE OptionalAll(_, _)
OptionalAll(groups, present) ==
    IF groups = << >> THEN << >>
    ELSE Optional(Head(groups), present) \o OptionalAll(Tail(groups), present)

\* The section printed from the out-parameters of an accessor whose return
\* value is not tested: the group's values when it is present, whatever the
\* unassigned locals hold when it is not.
Unconditional(g, present) ==
    << Ev("print", g.sec, IF g.get \in present THEN "envelope" ELSE "uninit") >>

get_signal_info_ready(res) ==
    IF res.kind = "error" THEN OperationFailed(res)
    ELSE IF ~res.ok THEN ResultFailed("couldn't get signal info", res)
    ELSE Outcome(<< Ev("finish", "", ""), Ev("get_result", "", "") >>
                 \o Header
                 \o OptionalAll(SignalInfoGroups, res.present),
                 TRUE, FALSE)

get_signal_strength_ready(res) ==
    IF res.kind = "error" THEN OperationFailed(res)
    ELSE IF ~res.ok THEN ResultFailed("couldn't get signal strength", res)
    ELSE Outcome(<< Ev("finish", "", ""), Ev("get_result", "", ""),
                    Ev("get", SignalStrengthPrimary.get, "") >>
                 \o Header
                 \o Unconditional(SignalStrengthPrimary, res.present)
                 \o OptionalAll(SignalStrengthGroups, res.present),
                 TRUE, FALSE)

\* The serving-system handler printing the report without looking at the
\* result first: the result test comes after the field groups.
get_serving_system_ready_ProbesFirst(res) ==
    IF res.kind = "error" THEN OperationFailed(res)
    ELSE LET probes == << Ev("finish", "", "") >>
                       \o Header
                       \o << Ev("get", ServingSystemPrimary.get, "") >>
                       \o Unconditional(ServingSystemPrimary, res.present)
                       \o OptionalAll(ServingSystemGroups, res.present)
         IN  IF ~res.ok
             THEN Outcome(probes \o << Ev("get_result", "", ""),
                                       Ev("printerr",
                                          "couldn't get serving system",
                                          res.detail) >>,
                          FALSE, FALSE)
             ELSE Outcome(probes \o << Ev("get_result", "", "") >>, TRUE, FALSE)

get_serving_system_ready(res) ==
    IF res.kind = "error" THEN OperationFailed(res)
    ELSE IF ~res.ok THEN ResultFailed("couldn't get serving system", res)
    ELSE LET start == << Ev("finish", "", ""), Ev("get_result", "", "") >>
                      \o Header
                      \o << Ev("get", ServingSystemPrimary.get, "") >>
         IN  IF ServingSystemPrimary.get \notin res.present /\ res.fault = "crash"
             THEN \* radio_interfaces->len through the unassigned pointer
                  Outcome(start \o << Ev("crash", "radio_interfaces", "") >>,
                          FALSE, TRUE)
             ELSE Outcome(start
                          \o Unconditional(ServingSystemPrimary, res.present)
                          \o OptionalAll(ServingSystemGroups, res.present),
                          TRUE, FALSE)

\* The persistent group: its line is printed with a second read of
\* ctx->device.
Persistent(g, present) ==
    << Ev("get", g.get, "") >>
    \o (IF g.get \in present
        THEN << Ev("ctx_read", "device", ""), Ev("print", g.sec, "envelope") >>
        ELSE << >>)

get_technology_preference_ready(res) ==
    IF res.kind = "error" THEN OperationFailed(res)
    ELSE IF ~res.ok THEN ResultFailed("couldn't get technology preference", res)
    ELSE Outcome(<< Ev("finish", "", ""), Ev("get_result", "", ""),
                    Ev("get", TechnologyPreferencePrimary.get, "") >>
                 \o Header
                 \o Unconditional(TechnologyPreferencePrimary, res.present)
                 \o Persistent(TechnologyPreferenceGroups[1], res.present),
                 TRUE, FALSE)

get_system_selection_preference_ready(res) ==
    IF res.kind = "error" THEN OperationFailed(res)
    ELSE IF ~res.ok
    THEN ResultFailed("couldn't get system_selection preference", res)
    ELSE Outcome(<< Ev("finish", "", ""), Ev("get_result", "", "") >>
                 \o Header
                 \o OptionalAll(SystemSelectionPreferenceGroups, res.present),
                 TRUE, FALSE)

network_scan_ready(res) ==
    IF res.kind = "error" THEN OperationFailed(res)
    ELSE IF ~res.ok THEN ResultFailed("couldn't scan networks", res)
    ELSE Outcome(<< Ev("finish", "", ""), Ev("get_result", "", "") >>
                 \o Header
                 \o OptionalAll(NetworkScanGroups, res.present),
                 TRUE, FALSE)

reset_ready(res) ==
    IF res.kind = "error" THEN OperationFailed(res)
    ELSE IF ~res.ok THEN ResultFailed("couldn't reset the NAS service", res)
    ELSE Outcome(<< Ev("finish", "", ""), Ev("get_result", "", "") >> \o Header,
                 TRUE, FALSE)

\* The GAsyncReadyCallback registered for the action.
Callback(action, res) ==
    CASE action = "get_signal_strength" -> get_signal_strength_ready(res)
      [] action = "get_signal_info" -> get_signal_info_ready(res)
      [] action = "get_serving_system" -> get_serving_system_ready(res)
      [] action = "get_technology_preference" ->
            get_technology_preference_ready(res)
      [] action = "get_system_selection_preference" ->
            get_system_selection_preference_ready(res)
      [] action = "network_scan" -> network_scan_ready(res)
      [] action = "reset" -> reset_ready(res)

\* The GSourceFunc run for an idle source.
noop_cb == Outcome(<< >>, TRUE, FALSE)

\* noop_cb returning TRUE: the idle source stays attached.
noop_cb_return_Rearm == TRUE

\* The value noop_cb returns to the main loop: FALSE removes the source.
noop_cb_return == FALSE

\* ------------------------------------------------------ context_free, shutdown

BoolStr(b) == IF b THEN "TRUE" ELSE "FALSE"

\* context_free without the release of the client.
context_free_LeaksClient(c, r) ==
    IF c.state = "none" THEN r
    ELSE [r EXCEPT !.token = IF c.cancellable = "token" THEN @ - 1 ELSE @,
                   !.device = IF c.device # "null" THEN @ - 1 ELSE @]

\* The reference counts after context_free (c): one g_object_unref for each
\* non-NULL field that is an object.  A context that was already freed is
\* read as it was left.
context_free(c, r) ==
    IF c.state = "none" THEN r
    ELSE [r EXCEPT !.token = IF c.cancellable = "token" THEN @ - 1 ELSE @,
                   !.device = IF c.device # "null" THEN @ - 1 ELSE @,
                   !.client = IF c.client # "null" THEN @ - 1 ELSE @]

\* The context after g_slice_free: the global pointer is not reset.
Freed(c) == IF c.state = "none" THEN c ELSE [c EXCEPT !.state = "freed"]

\* shutdown reading ctx->device once more after context_free.
shutdown_ReadsFreedContext(steps, operation_status, wild) ==
    /\ refs' = context_free(ctx, refs)
    /\ ctx' = Freed(ctx)
    /\ doneSignals' = Append(doneSignals, operation_status)
    /\ pc' = "finished"
    /\ trace' = trace \o steps
                      \o << Ev("shutdown", BoolStr(operation_status), ""),
                            Ev("context_free", ctx.state, ""),
                            Ev("ctx_read", "device", ""),
                            Ev("operation_done", BoolStr(operation_status), "") >>

\* A handler that took 'steps' and then calls shutdown (operation_status).
\* 'wild' is what g_object_unref does with a wild ctx->cancellable.
shutdown(steps, operation_status, wild) ==
    LET enter == << Ev("shutdown", BoolStr(operation_status), ""),
                    Ev("context_free", ctx.state, "") >>
        dies == ctx.state # "none" /\ ctx.cancellable = "wild" /\ wild = "crash"
    IN  IF dies
        THEN /\ pc' = "crashed"
             /\ trace' = trace \o steps \o enter
                               \o << Ev("crash", "cancellable", "") >>
             /\ UNCHANGED << ctx, refs, doneSignals >>
        ELSE /\ refs' = context_free(ctx, refs)
             /\ ctx' = Freed(ctx)
             /\ doneSignals' = Append(doneSignals, operation_status)
             /\ pc' = "finished"
             /\ trace' = trace \o steps \o enter
                               \o << Ev("operation_done",
                                        BoolStr(operation_status), "") >>

\* A handler that died before reaching shutdown.
Died(steps) ==
    /\ pc' = "crashed"
    /\ trace' = trace \o steps
    /\ UNCHANGED << ctx, refs, doneSignals >>

\* A handler that returned to the main loop without calling shutdown.
Returned(steps) ==
    /\ trace' = trace \o steps
    /\ UNCHANGED << pc, ctx, refs, doneSignals >>

\* ------------------------------------------------------- values rendered
\* Decibel values are kept in tenths of a dB, as the '%.1lf' conversions
\* print them.

\* The gdouble values of the switch, in tenths of a dB, for levels 0 to 8.
SinrTable == << -90, -60, -45, -30, -20, 10, 30, 60, 90 >>

\* The conversion clamping an unknown level to the last entry of the table.
get_db_from_sinr_level_Clamps(level) ==
    [ value   |-> "dB",
      tenths  |-> SinrTable[IF level + 1 \in DOMAIN SinrTable
                            THEN level + 1 ELSE Len(SinrTable)],
      warning |-> FALSE ]

\* get_db_from_sinr_level: the table entry, or for any other level the
\* g_warning and -G_MAXDOUBLE.
get_db_from_sinr_level(level) ==
    IF level + 1 \in DOMAIN SinrTable
    THEN [ value |-> "dB", tenths |-> SinrTable[level + 1], warning |-> FALSE ]
    ELSE [ value |-> "-G_MAXDOUBLE", tenths |-> 0, warning |-> TRUE ]

\* The conversion dividing by two in integer arithmetic: whole dB only.
EcioDb_WholeDb(ecio) == (-10) * (ecio \div 2)

\* (-0.5) * ((gdouble) ecio), in tenths of a dB.
EcioDb(ecio) == (-5) * ecio

\* The values of the signed 8-bit type.
Int8 == (-(2^7)) .. (2^7 - 1)

\* The product kept in the 8 bits of its operand.
TimesAsInt_Wraps8(raw, unit) == ((raw * unit + 2^7) % 2^8) - 2^7

\* (gint) raw * unit: the gint8 operand is widened before the product.
TimesAsInt(raw, unit) == raw * unit

\* Minutes per unit of the 3GPP2 local time offset.
Minutes3gpp2 == 30

\* Minutes per unit of the 3GPP time zone.
Minutes3gpp == 15

RECURSIVE JoinBits(_, _, _)
\* The names of 'bits' that are in 'mask', in the order of 'bits', joined
\* with ", ".
JoinBits(bits, mask, first) ==
    IF bits = << >> THEN ""
    ELSE IF Head(bits) \in mask
    THEN (IF first THEN "" ELSE ", ") \o Head(bits)
         \o JoinBits(Tail(bits), mask, FALSE)
    ELSE JoinBits(Tail(bits), mask, first)

\* *_build_string_from_mask: the set bits by name, "none" for no bit.
build_string_from_mask(bits, mask) ==
    IF mask = {} THEN "none" ELSE JoinBits(bits, mask, TRUE)

\* The named bits of the radio technology preference mask.
RadioTechnologyPreferenceBits ==
    << "3gpp2", "3gpp", "amps-or-gsm", "cdma-or-wcdma", "hdr", "lte" >>

\* qmi_device_get_path_display (ctx->device).
DevicePathDisplay == "/dev/cdc-wdm0"

\* The loop showing the status of element 0 on every line.
NetworkLines_FirstStatus(networks) ==
    [ i \in DOMAIN networks |->
        [ index  |-> i - 1,
          status |-> build_string_from_mask(NetworkStatusBits, networks[1]) ] ]

\* The status line of every element of the network_information array.
NetworkLines(networks) ==
    [ i \in DOMAIN networks |->
        [ index  |-> i - 1,
          status |-> build_string_from_mask(NetworkStatusBits, networks[i]) ] ]

\* The 'Persistent' line with the preference in its first slot and nothing
\* but a duration in its second.
PersistentLine_PreferenceFirst(v) ==
    [ persistent |-> build_string_from_mask(RadioTechnologyPreferenceBits,
                                            v.persistent),
      duration   |-> "duration" ]

\* The arguments of the 'Persistent' format, by the slot they fill.
PersistentLine(v) ==
    [ persistent |-> DevicePathDisplay,
      duration   |-> build_string_from_mask(RadioTechnologyPreferenceBits,
                                            v.persistent) ]

\* A section whose values the model does not follow.
NoValues == [ values |-> "not followed" ]

\* What each section of a report prints from the values v of its group.
SectionValues(action, sec, v) ==
    CASE action = "get_signal_info" /\ sec \in { "CDMA", "WCDMA" } ->
            [ ecio |-> EcioDb(v.ecio) ]
      [] action = "get_signal_info" /\ sec = "HDR" ->
            [ ecio |-> EcioDb(v.ecio), sinr_level |-> v.sinr_level,
              sinr |-> get_db_from_sinr_level(v.sinr_level) ]
      [] action = "get_signal_strength" /\ sec = "Current" ->
            [ network |-> v.radio_interface, dbm |-> v.strength ]
      [] action = "get_signal_strength" /\ sec = "ECIO" ->
            [ ecio |-> EcioDb(v.ecio) ]
      [] action = "get_signal_strength" /\ sec = "SINR" ->
            [ sinr_level |-> v.sinr_level,
              sinr |-> get_db_from_sinr_level(v.sinr_level) ]
      [] action = "get_serving_system" /\ sec = "3GPP2 time zone" ->
            [ minutes |-> TimesAsInt(v.local_time_offset, Minutes3gpp2) ]
      [] action = "get_serving_system" /\ sec = "3GPP time zone offset" ->
            [ minutes |-> TimesAsInt(v.time_zone, Minutes3gpp) ]
      [] action = "get_technology_preference" /\ sec = "Persistent" ->
            PersistentLine(v)
      [] action = "network_scan" /\ sec = "Network information" ->
            [ networks |-> NetworkLines(v.networks) ]
      [] OTHER -> NoValues

\* One printed section: its name, whether its values came from the response
\* ("envelope") or from unassigned locals ("uninit"), and what it shows.
Section(action, step, v) ==
    [ sec  |-> step[2],
      from |-> step[3],
      line |-> IF step[3] = "envelope" THEN SectionValues(action, step[2], v)
               ELSE NoValues ]

\* ------------------------------------------------------------ the main loop

\* The client completes the oldest pending request with one of the
\* completions 'deliverable' and calls its callback.
CompleteWith(deliverable) ==
    /\ Alive
    /\ pending # << >>
    /\ LET req == Head(pending) IN
       \E res \in deliverable, wild \in WildOutcomes :
          LET h == Callback(req.callback, res) IN
          /\ pending' = Tail(pending)
          /\ completion' = res
          /\ IF h.crashed
             THEN Died(<< Ev("callback", req.callback, "") >> \o h.steps)
             ELSE IF ~h.torn
             THEN Returned(<< Ev("callback", req.callback, "") >> \o h.steps)
             ELSE shutdown(<< Ev("callback", req.callback, "") >> \o h.steps,
                           h.status, wild)
    /\ UNCHANGED << flags, modem, checked, n_actions, returns, refs0,
                    cancelled, idle >>

\* The client completes the oldest pending request and calls its callback.
Complete ==
    /\ pending # << >>
    /\ CompleteWith(Completions(Head(pending).action, cancelled))

\* The main loop dispatches the oldest idle source.
IdleDispatch ==
    /\ Alive
    /\ idle # << >>
    /\ \E wild \in WildOutcomes :
          shutdown(<< Ev("callback", Head(idle), "") >> \o noop_cb.steps,
                   noop_cb.status, wild)
    /\ idle' = IF noop_cb_return THEN idle ELSE Tail(idle)
    /\ UNCHANGED << flags, modem, checked, n_actions, returns, refs0,
                    cancelled, pending, completion >>

\* The caller triggers the cancellation token it passed to qmicli_nas_run.
Cancel ==
    /\ pc = "running"
    /\ ctx.cancellable = "token"
    /\ ~cancelled
    /\ cancelled' = TRUE
    /\ trace' = Append(trace, Ev("cancel", "", ""))
    /\ UNCHANGED << flags, modem, checked, n_actions, returns, pc, ctx, refs,
                    refs0, pending, idle, doneSignals, completion >>

Next ==
    \/ qmicli_nas_options_enabled
    \/ qmicli_nas_run
    \/ Complete
    \/ IdleDispatch
    \/ Cancel

Spec == Init /\ [][Next]_vars

\* qmicli_nas_options_enabled called again and again on the parsed flags.
OptionsSpec == Init /\ [][CountedCall]_vars

\* The same program under a scheduler that keeps going: the driver does call
\* qmicli_nas_run, the transport does deliver a completion for a pending
\* request, and the main loop does dispatch a ready idle source.
FairSpec ==
    /\ Spec
    /\ WF_vars(qmicli_nas_run)
    /\ WF_vars(Complete)
    /\ WF_vars(IdleDispatch)

\* ------------------------------------------------- the values of a report
\* The same program run with one action flag against modems that differ in
\* one raw value, each answering with every field group of the action.

\* The flags after parsing a command line that names the one action.
OnlyFlag(action) == [ a \in Actions |-> a = action ]

\* The modems that differ from ScenarioModem in one value the action's
\* report shows.
ModemsFor(action) ==
    LET Ecio == { [ScenarioModem EXCEPT !.ecio = e] : e \in 0..MaxEcio }
        Sinr == { [ScenarioModem EXCEPT !.sinr_level = l] :
                     l \in 0..MaxSinrLevel }
        Zone == { [ScenarioModem EXCEPT !.local_time_offset = z] : z \in Int8 }
                \cup { [ScenarioModem EXCEPT !.time_zone = z] : z \in Int8 }
        Nets == { [ScenarioModem EXCEPT !.networks = << m >>] :
                     m \in SUBSET { NetworkStatusBits[i] :
                                       i \in DOMAIN NetworkStatusBits } }
    IN  { ScenarioModem } \cup
        CASE action \in { "get_signal_strength", "get_signal_info" } ->
                Ecio \cup Sinr
          [] action = "get_serving_system" -> Zone
          [] action = "network_scan" -> Nets
          [] OTHER -> {}

ValueActions ==
    { "get_signal_strength", "get_signal_info", "get_serving_system",
      "network_scan" }

ValueInit ==
    /\ \E action \in ValueActions :
          /\ flags = OnlyFlag(action)
          /\ modem \in ModemsFor(action)
    /\ ProcessStart

\* The successful response that carries every field group of the action.
FullResponse(action) ==
    [ kind |-> "output", ok |-> TRUE, detail |-> "",
      present |-> GroupNames(action), fault |-> "none" ]

\* The client completes the pending request with the full response.
DeliverFull ==
    /\ pending # << >>
    /\ CompleteWith({ FullResponse(Head(pending).action) })

ValueNext ==
    \/ qmicli_nas_options_enabled
    \/ qmicli_nas_run
    \/ DeliverFull

ValueSpec == ValueInit /\ [][ValueNext]_vars

\* ------------------------------------------------ qmicli_nas_run on its own
\* qmicli_nas_run called on flags of which at most one is set, without the
\* driver's check, each request answered with the full response.

DirectCallInit ==
    /\ flags \in { f \in [Actions -> BOOLEAN] : FlagCount(f) <= 1 }
    /\ modem = ScenarioModem
    /\ ProcessStart

DirectCallNext ==
    \/ CalledDirectly
    \/ DeliverFull
    \/ IdleDispatch

DirectCallSpec == DirectCallInit /\ [][DirectCallNext]_vars

TypeOK ==
    /\ pc \in ProcessStates
    /\ checked \in BOOLEAN
    /\ n_actions \in 0..Cardinality(Actions)
    /\ ctx.state \in { "none", "live", "freed" }
    /\ Len(pending) <= 1

\* ================================================================ claims

\* The action of this invocation.
Op == Selected(flags)

\* qmicli_nas_run has returned.
RunReturned == CountArg("run", "return") = 1

\* Setting the request mask failed in get_signal_strength_input_create.
BuildFailed == CountArg("printerr", "couldn't create input data bundle") > 0

\* The steps taken since the callback was entered, without their notes.
HandlerActs ==
    LET k == FirstIndex("callback", Op)
    IN  [ i \in 1..(Len(trace) - k) |-> << trace[k + i][1], trace[k + i][2] >> ]

\* C1: in one invocation of qmicli_nas_run, shutdown (and with it
\* context_free) is called at most once at every moment; it has not been
\* called before the completion callback runs, and once a callback has run to
\* its end, on whichever path (success, result failure, transport failure,
\* cancellation, after a failed request build), it has been called exactly
\* once.
C1_TeardownExactlyOnce ==
    /\ Count("shutdown") <= 1
    /\ Count("context_free") = Count("shutdown")
    /\ Count("callback") = 0 => Count("shutdown") = 0
    /\ (Count("callback") >= 1 /\ pc # "crashed") => Count("shutdown") = 1
    /\ pc = "finished" => Count("shutdown") = 1

\* C1 witness: a signal-strength invocation whose request build failed and
\* whose response carried a failing result has been torn down.
C1_Witness ==
    /\ Op = "get_signal_strength"
    /\ BuildFailed
    /\ completion.kind = "output" /\ ~completion.ok
    /\ pc = "finished"
    /\ Count("shutdown") = 1

\* C2: when the request build fails, no request is ever submitted: the
\* invocation is torn down at once and finishes unsuccessfully.
C2_BuildFailureNeverSubmits ==
    BuildFailed =>
        /\ Count("submit") = 0
        /\ pending = << >>
        /\ Count("shutdown") = 1
        /\ pc # "crashed" => doneSignals = << FALSE >>

\* C3: with more than one action flag set, qmicli_nas_options_enabled prints
\* the too-many-actions error and exits: the process is either not yet past
\* its first call or has exited, no context exists, no reference was taken,
\* nothing was submitted or scheduled.
C3_ConflictingActionsRejected ==
    FlagCount(flags) > 1 =>
        /\ pc \in { "start", "exited" }
        /\ pc = "exited" =>
              trace = << Ev("printerr", "too many NAS actions requested", ""),
                         Ev("exit", "EXIT_FAILURE", "") >>
        /\ pc = "start" => trace = << >>
        /\ ~checked
        /\ ctx = NoContext
        /\ refs = [device |-> refs0, client |-> refs0, token |-> refs0]
        /\ pending = << >> /\ idle = << >> /\ doneSignals = << >>

\* C3 witness: two flags were set and the process has exited.
C3_Witness ==
    /\ FlagCount(flags) = 2
    /\ pc = "exited"
    /\ CountArg("printerr", "too many NAS actions requested") = 1

\* The transport completed without error and the result is a success, or
\* the action is the no-op and its callback has run.
Succeeded ==
    \/ Op = "noop" /\ Count("callback") >= 1
    \/ completion.kind = "output" /\ completion.ok

\* C4: qmicli_async_operation_done is called at most once, exactly once when
\* the invocation has finished; its flag is TRUE exactly when the transport
\* completed without error with a successful result (or the action is the
\* no-op), and FALSE after every failure, a failed request build included.
C4_FinishedOnceWithStatus ==
    /\ Len(doneSignals) <= 1
    /\ pc = "finished" =>
          /\ Len(doneSignals) = 1
          /\ doneSignals[1] <=> Succeeded
          /\ BuildFailed => doneSignals[1] = FALSE

\* C5: in every handler a field-group accessor is called only after the
\* result accessor, which is called right after the finish call and has
\* reported success; when the result is a failure the handler prints the
\* failure with its detail, calls no field-group accessor, prints no line
\* of the report and calls shutdown (FALSE).
C5_ResultCheckedBeforeFields ==
    /\ \A i \in DOMAIN trace :
          trace[i][1] = "get" =>
             /\ \E j \in 1..(i - 1) : trace[j][1] = "get_result"
             /\ completion.kind = "output" /\ completion.ok
    /\ \A i \in DOMAIN trace :
          trace[i][1] = "get_result" => i > 1 /\ trace[i - 1][1] = "finish"
    /\ \A i \in DOMAIN trace :
          trace[i][1] = "print" =>
             \E j \in 1..(i - 1) : trace[j][1] = "get_result"
    /\ (completion.kind = "output" /\ ~completion.ok) =>
          /\ Count("get") = 0
          /\ Count("print") = 0
          /\ \E i \in DOMAIN trace :
                trace[i][1] = "printerr" /\ trace[i][3] = completion.detail
          /\ CountArg("shutdown", "FALSE") = 1
          /\ CountArg("shutdown", "TRUE") = 0

\* C5 witness: a serving-system response with a failing result that carries
\* field groups has been handled.
C5_Witness ==
    /\ Op = "get_serving_system"
    /\ completion.kind = "output" /\ ~completion.ok
    /\ completion.detail = "no service"
    /\ completion.present # {}
    /\ pc = "finished"

\* C6: a field group that is absent from the response contributes nothing to
\* the report (every section printed comes from a group the response
\* carries, the primary groups included), is no error, and the remaining
\* groups are still read: a handled successful response has had every
\* accessor of its action called.
C6_AbsentGroupContributesNothing ==
    /\ \A i \in DOMAIN trace :
          (trace[i][1] = "print" /\ trace[i][2] # "header") =>
             trace[i][3] = "envelope"
    /\ (completion.kind = "output" /\ completion.ok /\ pc = "finished") =>
          /\ doneSignals = << TRUE >>
          /\ Count("printerr") = (IF BuildFailed THEN 1 ELSE 0)
          /\ \A g \in GroupNames(Op) : CountArg("get", g) = 1

\* C7: after a transport failure, whatever its cause, the handler's steps are
\* the finish call, the error message with the transport's detail, and
\* shutdown (FALSE): no result accessor, no field-group accessor, nothing
\* printed to the report; a cancellation takes the same steps as a timeout.
C7_TransportFailure ==
    completion.kind = "error" =>
        /\ Count("get_result") = 0 /\ Count("get") = 0 /\ Count("print") = 0
        /\ \E i \in DOMAIN trace :
              trace[i] = Ev("printerr", "operation failed", completion.detail)
        /\ pc = "finished" =>
              /\ HandlerActs = << << "finish", "" >>,
                                  << "printerr", "operation failed" >>,
                                  << "shutdown", "FALSE" >>,
                                  << "context_free", "live" >>,
                                  << "operation_done", "FALSE" >> >>
              /\ doneSignals = << FALSE >>

\* C7 witness: the token was triggered, the transport delivered the
\* cancellation and the handler has finished.
C7_Witness ==
    /\ cancelled
    /\ completion.kind = "error" /\ completion.detail = "cancelled"
    /\ pc = "finished"

\* C8: at most one request is pending and at most one was ever submitted;
\* once qmicli_nas_run has returned, exactly one request, for the selected
\* action, was submitted for each of the seven queries and none for the
\* no-op, and the count does not change when the callback runs.
C8_AtMostOneRequest ==
    /\ Len(pending) <= 1
    /\ Count("submit") <= 1
    /\ pending # << >> => Count("callback") = 0
    /\ RunReturned =>
          /\ Op # "noop" => CountArg("submit", Op) = 1
          /\ Op = "noop" => Count("submit") = 0
          /\ Len(pending) + Count("callback") =
                (IF Op = "noop" THEN Count("callback") ELSE 1)

\* C8 witness: the network scan was submitted once and its callback has run.
C8_Witness ==
    /\ Op = "network_scan"
    /\ Count("submit") = 1
    /\ Count("callback") = 1
    /\ pending = << >>
    /\ pc = "finished"

\* C9: the callback of an invocation runs at most once and only after
\* qmicli_nas_run has returned; for the no-op nothing is submitted, the idle
\* source is attached when run returns, and once noop_cb has run the source
\* is gone and the invocation has finished successfully.
C9_CompletionOnceAfterReturn ==
    /\ Count("callback") <= 1
    /\ \A i \in DOMAIN trace :
          trace[i][1] = "callback" =>
             FirstIndex("run", "return") \in 1..(i - 1)
    /\ (Op = "noop" /\ RunReturned) =>
          /\ Count("submit") = 0 /\ pending = << >>
          /\ Count("callback") = 0 => idle = << "noop_cb" >>
          /\ Count("callback") = 1 =>
                /\ idle = << >>
                /\ pc = "finished" => doneSignals = << TRUE >>

\* C9 witness: the no-op's idle callback has run and the invocation is
\* finished.
C9_Witness ==
    /\ Op = "noop"
    /\ CountArg("callback", "noop_cb") = 1
    /\ idle = << >>
    /\ pc = "finished"

\* C10: while the context is live, the device and the client each have one
\* reference more than before qmicli_nas_run, and so has the token when one
\* was passed; once the context is freed, every count is back at its value
\* before the call.
C10_ReferencesBalanced ==
    LET before == [device |-> refs0, client |-> refs0, token |-> refs0]
    IN  /\ ctx.state = "none" => refs = before
        /\ ctx.state = "live" =>
              refs = [device |-> refs0 + 1, client |-> refs0 + 1,
                      token |-> IF ctx.cancellable = "token"
                                THEN refs0 + 1 ELSE refs0]
        /\ ctx.state = "freed" => refs = before
        /\ pc = "finished" => ctx.state = "freed"

\* C10 witness: an invocation that was given a token and ended in a transport
\* failure is finished, with handles that started at two references.
C10_Witness ==
    /\ refs0 = 2
    /\ ctx.cancellable = "token"
    /\ completion.kind = "error"
    /\ pc = "finished"
    /\ ctx.state = "freed"

\* ---------------------------------------------------------------------- C11
\* C11: with exactly one action flag set (the driver is about to call
\* qmicli_nas_run) and a transport that delivers, the invocation eventually
\* reaches teardown and signals finished once.
C11_EventuallyTornDown ==
    (pc = "selected") ~> (pc = "finished" /\ Len(doneSignals) = 1)

\* ---------------------------------------------------------------------- C12
\* C12: qmicli_nas_options_enabled sums the flags once at most; with no flag
\* set every call returns FALSE, with exactly one set every call returns TRUE,
\* and every later call returns what the first call returned.
C12_OptionsEnabledIdempotent ==
    /\ n_counts <= 1
    /\ enabled_first # << >> =>
          /\ n_counts = 1
          /\ enabled_last = enabled_first
          /\ FlagCount(flags) = 0 => enabled_first = << FALSE >>
          /\ FlagCount(flags) = 1 => enabled_first = << TRUE >>
    /\ (n_calls >= 1 /\ FlagCount(flags) <= 1) => enabled_first # << >>

\* The last of MaxCalls calls has returned TRUE for the one flag set.
C12_Witness ==
    /\ n_calls = MaxCalls
    /\ FlagCount(flags) = 1
    /\ enabled_last = << TRUE >>

\* ---------------------------------------------------------------------- C13
\* The steps that print a section of the report, in the order taken.
PrintSteps ==
    SelectSeq(trace, LAMBDA e : e[1] = "print" /\ e[2] # "header")

\* The sections of the report, in the order printed.
PrintedSections == [ i \in DOMAIN PrintSteps |-> PrintSteps[i][2] ]

\* The accessors called on the response, in the order called.
AccessorsCalled ==
    LET S == SelectSeq(trace, LAMBDA e : e[1] = "get")
    IN  [ i \in DOMAIN S |-> S[i][2] ]

\* The sections a handler that ran to its end prints for the groups
\* 'present': those of the groups present, and those it never tests.
SectionsFor(groups, present) ==
    LET S == SelectSeq(groups, LAMBDA g : g.get \in present \/ ~g.checked)
    IN  [ i \in DOMAIN S |-> S[i].sec ]

\* The order of the signal-info report.
SignalInfoOrder ==
    << G("cdma_signal_strength", "CDMA", TRUE),
       G("hdr_signal_strength", "HDR", TRUE),
       G("gsm_signal_strength", "GSM", TRUE),
       G("wcdma_signal_strength", "WCDMA", TRUE),
       G("lte_signal_strength", "LTE", TRUE),
       G("tdma_signal_strength", "TDMA", TRUE) >>

\* C13: the report of a handled successful response lists its sections in
\* one fixed order per action, whichever groups are present: the sections
\* printed are a function of the action and of the groups present, and for
\* get_signal_info they are the present ones of CDMA, HDR, GSM, WCDMA, LTE,
\* TDMA in that order; the accessors are called in that same order.
C13_FixedRenderOrder ==
    (completion.kind = "output" /\ completion.ok /\ pc = "finished") =>
        /\ PrintedSections = SectionsFor(GroupsOf(Op), completion.present)
        /\ Op = "get_signal_info" =>
              /\ PrintedSections =
                    SectionsFor(SignalInfoOrder, completion.present)
              /\ AccessorsCalled =
                    [ i \in DOMAIN SignalInfoOrder |-> SignalInfoOrder[i].get ]

\* A signal-info response with only the first and the fifth group.
C13_Witness ==
    /\ Op = "get_signal_info"
    /\ pc = "finished"
    /\ completion.ok
    /\ completion.present = { "cdma_signal_strength", "lte_signal_strength" }
    /\ PrintedSections = << "CDMA", "LTE" >>

\* ---------------------------------------------------------------------- C14
\* The report: every section printed so far, with the values it shows.
Report == [ i \in DOMAIN PrintSteps |-> Section(Op, PrintSteps[i], modem) ]

\* The sections of the report named sec.
SectionsNamed(sec) == { i \in DOMAIN Report : Report[i].sec = sec }

\* The dB value of each EVDO SINR level, in tenths of a dB.
SinrDbTenths ==
    [ level \in 0..8 |->
        CASE level = 0 -> -90 [] level = 1 -> -60 [] level = 2 -> -45
          [] level = 3 -> -30 [] level = 4 -> -20 [] level = 5 -> 10
          [] level = 6 -> 30  [] level = 7 -> 60  [] level = 8 -> 90 ]

\* C14: wherever a report shows a SINR level (HDR section of signal info,
\* SINR section of signal strength), levels 0 to 8 show -9.0, -6.0, -4.5,
\* -3.0, -2.0, +1.0, +3.0, +6.0, +9.0 dB, a level above 8 raises the warning
\* and shows no value of the table, and the handler goes on to print the
\* sections that follow and to tear down.
C14_SinrLevelTable ==
    \A i \in SectionsNamed("HDR") \cup SectionsNamed("SINR") :
        LET sinr == Report[i].line.sinr IN
        /\ Report[i].line.sinr_level = modem.sinr_level
        /\ modem.sinr_level \in 0..8 =>
              sinr = [ value |-> "dB", tenths |-> SinrDbTenths[modem.sinr_level],
                       warning |-> FALSE ]
        /\ modem.sinr_level >= 9 =>
              /\ sinr.warning
              /\ sinr.value = "-G_MAXDOUBLE"
        /\ pc = "finished" =>
              /\ PrintedSections = SectionsFor(GroupsOf(Op), completion.present)
              /\ doneSignals = << TRUE >>

\* A signal-strength report with an invalid level: the SINR section is
\* followed by RSRQ, SNR and RSRP.
C14_Witness ==
    /\ Op = "get_signal_strength"
    /\ pc = "finished"
    /\ modem.sinr_level = 9
    /\ \E i \in SectionsNamed("SINR") :
          /\ Report[i].line.sinr.warning
          /\ Len(Report) = i + 3
          /\ Report[i + 3].sec = "RSRP"

\* ---------------------------------------------------------------------- C15
\* Position of a bit in the canonical order of the network-status mask.
BitRank(b) ==
    CHOOSE i \in DOMAIN NetworkStatusBits : NetworkStatusBits[i] = b

OnlyPrimaryStrength ==
    /\ Op = "get_signal_strength"
    /\ completion.kind = "output"
    /\ completion.ok
    /\ completion.present = { "signal_strength" }

\* C16: a successful signal-strength response carrying only the primary
\* strength (-85 dBm on LTE) is reported as that one pair under 'Current',
\* with none of the sections Other, RSSI, ECIO, IO, SINR, RSRQ, SNR, RSRP,
\* and the invocation finishes with status TRUE.
C16_OnlyPrimaryStrength ==
    OnlyPrimaryStrength =>
        /\ Report = << [ sec  |-> "Current",
                         from |-> "envelope",
                         line |-> [ network |-> "lte", dbm |-> -85 ] ] >>
        /\ \A i \in DOMAIN PrintedSections :
              PrintedSections[i] \notin { "Other", "RSSI", "ECIO", "IO", "SINR",
                                          "RSRQ", "SNR", "RSRP" }
        /\ ctx.cancellable # "wild" =>
              /\ pc = "finished"
              /\ doneSignals = << TRUE >>

C16_Witness ==
    /\ OnlyPrimaryStrength
    /\ modem.strength = -85
    /\ modem.radio_interface = "lte"
    /\ Len(Report) = 1
    /\ pc = "finished"

\* ---------------------------------------------------------------------- C17
\* C17: of the requests submitted, only get_signal_strength carries an input,
\* and its request mask is RSSI, ECIO, IO, SINR, RSRQ, LTE SNR, LTE RSRP;
\* every other request is submitted with no input; the network scan is given
\* a timeout of 300 and every other request one of 10.
C17_PayloadAndTimeout ==
    \A i \in DOMAIN pending :
        LET r == pending[i] IN
        /\ r.action \in Actions \ { "noop" }
        /\ ~r.input.is_null =>
              /\ r.action = "get_signal_strength"
              /\ r.input.request_mask =
                    { "RSSI", "ECIO", "IO", "SINR", "RSRQ", "LTE_SNR",
                      "LTE_RSRP" }
        /\ r.action # "get_signal_strength" =>
              r.input = [ is_null |-> TRUE, request_mask |-> {} ]
        /\ (r.action = "get_signal_strength" /\ ~BuildFailed) =>
              ~r.input.is_null
        /\ r.timeout = (IF r.action = "network_scan" THEN 300 ELSE 10)

\* A network scan has been submitted, with no input and a timeout of 300.
C17_Witness ==
    /\ pending # << >>
    /\ Head(pending).action = "network_scan"
    /\ Head(pending).input.is_null
    /\ Head(pending).timeout = 300

\* ---------------------------------------------------------------------- C18
\* The sections that show an ECIO value: CDMA, HDR and WCDMA of signal info,
\* ECIO of signal strength.
EcioSections ==
    IF Op = "get_signal_info"
    THEN SectionsNamed("CDMA") \cup SectionsNamed("HDR")
         \cup SectionsNamed("WCDMA")
    ELSE IF Op = "get_signal_strength" THEN SectionsNamed("ECIO")
    ELSE {}

C19_TimeZoneMinutes ==
    /\ modem.local_time_offset \in -128..127
    /\ modem.time_zone \in -128..127
    /\ \A i \in SectionsNamed("3GPP2 time zone") :
          /\ Report[i].line.minutes = modem.local_time_offset * 30
          /\ modem.local_time_offset = 2 => Report[i].line.minutes = 60
          /\ modem.local_time_offset = 127 => Report[i].line.minutes = 3810
    /\ \A i \in SectionsNamed("3GPP time zone offset") :
          /\ Report[i].line.minutes = modem.time_zone * 15
          /\ modem.time_zone = -4 => Report[i].line.minutes = -60
          /\ modem.time_zone = 127 => Report[i].line.minutes = 1905

\* A serving-system report of the largest 3GPP2 offset next to a negative
\* 3GPP time zone.
C19_Witness ==
    /\ modem.local_time_offset = 127
    /\ modem.time_zone = -4
    /\ \E i \in SectionsNamed("3GPP2 time zone") :
          Report[i].line.minutes = 3810
    /\ \E i \in SectionsNamed("3GPP time zone offset") :
          Report[i].line.minutes = -60

\* ---------------------------------------------------------------------- C20
\* The 'Persistent' lines of a technology-preference report.
PersistentLines ==
    IF Op = "get_technology_preference" THEN SectionsNamed("Persistent")
    ELSE {}

\* C20 as stated: the slot printed as 'duration' of the 'Persistent' line
\* shows the device identifier.
C20_DeviceIdentifierAsDuration ==
    \A i \in PersistentLines : Report[i].line.duration = DevicePathDisplay

\* C20, amended: the 'Persistent' line shows the device identifier in its
\* first slot, the one labelled 'Persistent', and the text of the persistent
\* preference in its second slot, the one labelled 'duration'; it shows no
\* duration.
C20_PersistentLineSlots ==
    \A i \in PersistentLines :
        /\ Report[i].line.persistent = "/dev/cdc-wdm0"
        /\ Report[i].line.persistent = DevicePathDisplay
        /\ modem.persistent = { "3gpp2" } => Report[i].line.duration = "3gpp2"

\* A technology-preference report with its 'Persistent' line.
C20_Witness ==
    /\ PersistentLines # {}
    /\ pc = "finished"
    /\ modem.persistent = { "3gpp2" }

\* ---------------------------------------------------------------------- C21
\* The steps that read a field of the context: the reads of ctx->device for
\* the report, and the client calls, which are given ctx->client and
\* ctx->cancellable.
ContextReads ==
    { i \in DOMAIN trace : trace[i][1] \in { "ctx_read", "submit" } }

\* C21: the context is never read after it was freed: every read of a
\* field of the context comes before the call of context_free, that call
\* comes right after the handler's call of shutdown and is followed by
\* nothing but the finished signal, context_free is never called on the
\* stale pointer, and the global pointer is left pointing at the freed
\* context.
C21_NoReadAfterTeardown ==
    LET F == FirstIndex("context_free", "live") IN
    /\ CountArg("context_free", "freed") = 0
    /\ Count("context_free") <= 1
    /\ F = 0 => ctx.state # "freed"
    /\ F # 0 =>
          /\ \A i \in ContextReads : i < F
          /\ trace[F - 1][1] = "shutdown"
          /\ Len(trace) <= F + 1
          /\ Len(trace) = F + 1 =>
                trace[F + 1][1] \in { "operation_done", "crash" }
          /\ pc = "finished" => ctx.state = "freed"

\* A technology-preference report that read ctx->device for the header and
\* again for the 'Persistent' line, then tore the context down.
C21_Witness ==
    /\ Op = "get_technology_preference"
    /\ CountArg("ctx_read", "device") = 2
    /\ pc = "finished"
    /\ ctx.state = "freed"

\* ---------------------------------------------------------------------- C22
\* qmicli_nas_run was called with cancellable == NULL: a context exists and
\* its slot does not hold the caller's token.
RunWithoutToken == ctx.state # "none" /\ ctx.cancellable # "token"

\* C22: after qmicli_nas_run was called without a cancellation token the
\* cancellable slot of the context is NULL, the token's reference count is
\* never touched, and nothing is ever done to a pointer that was not stored:
\* the process does not die on it.
C22_TokenSlotEmptyWithoutToken ==
    RunWithoutToken =>
        /\ ctx.cancellable = "null"
        /\ refs.token = refs0
        /\ CountArg("crash", "cancellable") = 0

\* ---------------------------------------------------------------------- C23
\* qmicli_nas_run has returned and left nothing behind that could call back:
\* no request with the client, no idle source with the main loop.
NothingScheduled ==
    /\ RunReturned
    /\ pc # "crashed"
    /\ pending = << >>
    /\ idle = << >>

\* C23: once qmicli_nas_run has returned and nothing is scheduled any more
\* (at once when no action flag is set, where it submits no request and adds
\* no idle source), the context it created has been freed and the driver
\* has received the finished signal.
C23_NoFlagStillTornDown ==
    /\ (RunReturned /\ FlagCount(flags) = 0) =>
          Count("submit") = 0 /\ Count("idle_add") = 0
    /\ NothingScheduled =>
          /\ ctx.state = "freed"
          /\ Len(doneSignals) = 1
          /\ pc = "finished"

====
